---------------------------- MODULE Spec2Model ----------------------------
(***************************************************************************)
(* FindMyRent-API: the session credential lifecycle (routers/auth.py,      *)
(* security/helpers.py, security/refresh_token.py) and the token-bucket    *)
(* rate limiter (middleware/rate_limiting.py).                             *)
(*                                                                         *)
(* Two state machines share this module.  Spec is the credential           *)
(* lifecycle; SpecRL is the rate limiter.  Each leaves the other's         *)
(* variables unchanged.                                                    *)
(***************************************************************************)
EXTENDS Integers, Sequences, FiniteSets, TLC

(***************************************************************************)
(* Bounds of the credential model.  One tick of `now` is one day.          *)
(***************************************************************************)
MaxClock == 2
MaxRequests == 4
\* REFRESH_TOKEN_EXPIRE_DAYS, in ticks (the code's default is 7)
RefreshTTL == 1
\* ACCESS_TOKEN_EXPIRE_MINUTES, in ticks: shorter than a refresh credential
AccessTTL == 1
\* access credentials made by direct calls of create_access_token
MaxTokens == 2

Users == {"u1"}
\* the tasks that serve Refresh requests; a request takes the first free one
Procs == {1, 2}

\* The two identifiers of a user document: the e-mail address (an EmailStr)
\* and the document id (an ObjectId).  No e-mail address is an ObjectId.
Email(u) == <<"email", u>>
UserId(u) == <<"id", u>>
UnknownEmail == <<"email", "nobody">>

None == "None"
NoId == <<"none", "none">>
NoData == [type |-> "none"]
NoToken == [type |-> "none"]
Garbage == [type |-> "garbage"]
\* a string that decrypts under SECRET_KEY to bytes that are no JSON document
NotJson == [type |-> "notjson"]

VARIABLES
    now,            \* the clock shared by the servers and the TTL store
    active,         \* users whose document has is_active = True
    permitted,      \* users whose user_type has a Permissions document
    redis,          \* the TTL store: a set of [key, exp]
    refreshTokens,  \* every refresh credential minted so far
    accessTokens,   \* every access credential minted so far
    calls,          \* the Refresh requests in flight, one per task
    nreq,           \* number of requests received
    log,            \* the completed requests, by request number
    accepted,       \* history: Refresh calls that reached mark_token_as_used
    authz,          \* the latest call of get_current_user and its outcome
    faults          \* history: the requests during which a store call failed

authVars == <<now, active, permitted, redis, refreshTokens, accessTokens,
              calls, nreq, log, accepted, authz, faults>>

(***************************************************************************)
(* The TTL store (Redis).                                                  *)
(***************************************************************************)
UsedKey(jti) == <<"used_refresh_token:", jti>>
FamilyKey(fam) == <<"token_family:", fam>>
UserTokensPrefix(user_id) == <<"user_tokens:", user_id>>

\* EXISTS key: the key is set and its time to live has not run out.  The
\* write of a key follows the minting of the credential it is about, so a key
\* written in the tick of the minting outlives the credential: it is alive
\* through the tick now + ttl.
RedisExistsIn(store, key) == \E e \in store : e.key = key /\ now <= e.exp
RedisExists(key) == RedisExistsIn(redis, key)
\* SETEX key ttl value: (re)writes the key, restarting its time to live
RedisSetex(store, key, ttl) ==
    {e \in store : e.key # key} \cup {[key |-> key, exp |-> now + ttl]}
\* KEYS prefix*
RedisKeys(prefix) == {e.key : e \in {x \in redis : x.key[1] = prefix[1]
                                       /\ Len(x.key) > Len(prefix)
                                       /\ SubSeq(x.key, 1, Len(prefix)) = prefix}}
\* DEL keys
RedisDelete(store, keys) == {e \in store : e.key \notin keys}

(***************************************************************************)
(* The user documents (MongoDB through Beanie).                            *)
(***************************************************************************)
\* get_user: User.find_one(User.email == username)
get_user(username) ==
    IF \E u \in Users : Email(u) = username
    THEN CHOOSE u \in Users : Email(u) = username
    ELSE None

\* get_user_by_id: User.get(user_id); a string that is no ObjectId makes
\* User.get raise, which is caught and answered with None
get_user_by_id(user_id) ==
    IF \E u \in Users : UserId(u) = user_id
    THEN CHOOSE u \in Users : UserId(u) = user_id
    ELSE None

\* authenticate_user: the user by e-mail, then the password check
authenticate_user(username, passwordOk) ==
    IF get_user(username) = None THEN None
    ELSE IF ~passwordOk THEN None
    ELSE get_user(username)

\* Permissions.find_one(Permissions.user_type == user.user_type.value)
HasPermissions(u) == u \in permitted
PermissionsOf(u) == {"me"}

(***************************************************************************)
(* The credential codec.  A token is modelled by its decrypted payload;    *)
(* Garbage is any string jwe.decrypt rejects.                              *)
(***************************************************************************)
\* secrets.token_urlsafe(32): a value never drawn before
FreshJti == Cardinality(refreshTokens) + 1
FreshFamily == Cardinality({t.token_family : t \in refreshTokens}) + 1

\* create_access_token(data = {sub, scopes}, expires_delta): a timedelta of
\* zero is falsy, and the lifetime is then ACCESS_TOKEN_EXPIRE_MINUTES
IssueAccess(sub, scopes, expires_delta) ==
    [type |-> "access", sub |-> sub, scopes |-> scopes,
     exp |-> IF expires_delta # 0 THEN now + expires_delta ELSE now + AccessTTL]

\* as the handlers call it, with timedelta(minutes=ACCESS_TOKEN_EXPIRE_MINUTES)
create_access_token(sub, scopes) == IssueAccess(sub, scopes, AccessTTL)

create_refresh_token(user_id, token_family) ==
    [type |-> "refresh", user_id |-> user_id, token_family |-> token_family,
     jti |-> FreshJti, issued_at |-> now, exp |-> now + RefreshTTL]

\* mutant: the payload's type is not looked at; an access credential is
\* read with its subject as the user and its expiry as the rest
decode_refresh_token_AnyKind(tok) ==
    IF tok.type \notin {"refresh", "access"} THEN NoData
    ELSE IF now > tok.exp THEN NoData
    ELSE IF tok.type = "access"
    THEN [type |-> "refresh", user_id |-> tok.sub, token_family |-> tok.exp + 1,
          jti |-> tok.exp + 1, issued_at |-> tok.exp]
    ELSE [type |-> "refresh", user_id |-> tok.user_id,
          token_family |-> tok.token_family, jti |-> tok.jti,
          issued_at |-> tok.issued_at]
\* decode_refresh_token, lines 202-230: a payload whose "type" is not
\* "refresh" (an access credential carries none) or that is past its expiry
\* decodes to None, and so does a string that raises
decode_refresh_token(tok) ==
    IF tok.type # "refresh" THEN NoData
    ELSE IF now > tok.exp THEN NoData
    ELSE [type |-> "refresh", user_id |-> tok.user_id,
          token_family |-> tok.token_family, jti |-> tok.jti,
          issued_at |-> tok.issued_at]

\* get_current_user, lines 265-291: decrypt, parse, read sub, exp and scopes.
\* jwe.decrypt raises a JWEError for a string it rejects and json.loads a
\* JSONDecodeError; neither is a JWTError, a ValidationError or an
\* ExpiredSignatureError, so neither is caught.  A refresh credential has no
\* "sub" and no "scopes": TokenData(scopes=None) raises a ValidationError.
NoAccessData(kind) == [kind |-> kind, sub |-> NoId, scopes |-> {}]
\* mutant: a credential is refused from the instant of its expiry on
DecodeAccess_EarlyExpiry(tok) ==
    IF tok.type \in {"garbage", "notjson"} THEN NoAccessData("UnhandledException")
    ELSE IF tok.type # "access" THEN NoAccessData("CouldNotValidate")
    ELSE IF now >= tok.exp THEN NoAccessData("Expired")
    ELSE [kind |-> "Data", sub |-> tok.sub, scopes |-> tok.scopes]
DecodeAccess(tok) ==
    IF tok.type \in {"garbage", "notjson"} THEN NoAccessData("UnhandledException")
    ELSE IF tok.type # "access" THEN NoAccessData("CouldNotValidate")
    ELSE IF now > tok.exp THEN NoAccessData("Expired")
    ELSE [kind |-> "Data", sub |-> tok.sub, scopes |-> tok.scopes]

\* the answers of get_current_user
Denied(kind) == [kind |-> kind, user |-> None, sub |-> NoId, scopes |-> {}]
\* mutant: an access credential is refused once a record is in the TTL store
get_current_user_Revocable(tok, required) ==
    LET d == DecodeAccess(tok)
    IN  IF d.kind # "Data" THEN Denied(d.kind)
        ELSE IF redis # {} THEN Denied("CouldNotValidate")
        ELSE IF get_user(d.sub) = None THEN Denied("CouldNotValidate")
        ELSE IF ~(required \subseteq d.scopes) THEN Denied("NotEnoughPermissions")
        ELSE [kind |-> "User", user |-> get_user(d.sub), sub |-> d.sub,
              scopes |-> d.scopes]
\* get_current_user, lines 265-305: the decoding, the user by e-mail, the
\* scopes the endpoint requires
get_current_user(tok, required) ==
    LET d == DecodeAccess(tok)
    IN  IF d.kind # "Data" THEN Denied(d.kind)
        ELSE IF get_user(d.sub) = None THEN Denied("CouldNotValidate")
        ELSE IF ~(required \subseteq d.scopes) THEN Denied("NotEnoughPermissions")
        ELSE [kind |-> "User", user |-> get_user(d.sub), sub |-> d.sub,
              scopes |-> d.scopes]

(***************************************************************************)
(* SecureRefreshTokenService                                               *)
(***************************************************************************)
is_token_used(jti) == RedisExists(UsedKey(jti))
\* mutant: marking a marked credential removes the mark
mark_token_as_used_Toggle(store, jti) ==
    IF RedisExistsIn(store, UsedKey(jti))
    THEN RedisDelete(store, {UsedKey(jti)})
    ELSE RedisSetex(store, UsedKey(jti), RefreshTTL)
\* mutant: the record is never written
mark_token_as_used_NoWrite(store, jti) == store
\* mutant: the record is kept for less than the credential's lifetime
mark_token_as_used_ShortTTL(store, jti) ==
    RedisSetex(store, UsedKey(jti), RefreshTTL - 1)
mark_token_as_used(store, jti) == RedisSetex(store, UsedKey(jti), RefreshTTL)
\* mutant: the family record is never written
invalidate_token_family_NoWrite(store, fam) == store
invalidate_token_family(store, fam) == RedisSetex(store, FamilyKey(fam), RefreshTTL)
is_token_family_valid(fam) == ~RedisExists(FamilyKey(fam))
\* deletes the keys user_tokens:<user_id>:*; the token_family:* keys it
\* lists are not touched
revoke_all_user_tokens(store, user_id) ==
    RedisDelete(store, RedisKeys(UserTokensPrefix(user_id)))

(***************************************************************************)
(* The Session Issuer: routers/auth.py.                                    *)
(*                                                                         *)
(* Every call to the TTL store is a step of its own: the store is shared   *)
(* by all server processes, so calls of different requests interleave.     *)
(***************************************************************************)
IdleCall == [pc |-> "idle", tok |-> Garbage, data |-> NoData, req |-> 0,
             solo |-> TRUE, usedAtStart |-> FALSE]

Presentable == refreshTokens \cup {Garbage}

JtiOf(tok) == IF tok.type = "refresh" THEN tok.jti ELSE 0

InFlight == {p \in Procs : calls[p].pc # "idle"}

\* a request that starts or runs while a Refresh is in flight overlaps it
Overlapped(cs) == [p \in Procs |-> IF cs[p].pc # "idle"
                                   THEN [cs[p] EXCEPT !.solo = FALSE]
                                   ELSE cs[p]]

NoPair == [access |-> NoToken, refresh |-> NoToken]

\* the unexpired refresh credentials that carry user_id
CredentialsOf(user_id) ==
    {t \in refreshTokens : t.user_id = user_id /\ now <= t.exp}

\* The record of a completed request: what was presented, the outcome, the
\* pair it returned, and what the store held for it when it returned.
Entry(op, req, who, tok, out, pair, solo, usedAtStart, store) ==
    [op |-> op, req |-> req, who |-> who, jti |-> JtiOf(tok), out |-> out,
     presented |-> tok.type,
     newJti |-> IF pair.refresh = NoToken THEN 0 ELSE pair.refresh.jti,
     newFam |-> IF pair.refresh = NoToken THEN 0 ELSE pair.refresh.token_family,
     newUserId |-> IF pair.refresh = NoToken THEN NoId ELSE pair.refresh.user_id,
     newSub |-> IF pair.access = NoToken THEN NoId ELSE pair.access.sub,
     solo |-> solo,
     usedAtStart |-> usedAtStart,
     expired |-> tok.type = "refresh" /\ now > tok.exp,
     familyInvalid |-> tok.type = "refresh"
                       /\ RedisExistsIn(store, FamilyKey(tok.token_family)),
     userFamiliesInvalid |->
         tok.type = "refresh"
         /\ \A t \in CredentialsOf(tok.user_id) :
                RedisExistsIn(store, FamilyKey(t.token_family))]

\* the identifiers login_for_access_token puts into the pair
LoginAccessSubject(u) == Email(u)
LoginRefreshSubject(u) == Email(u)
\* the identifiers refresh_access_token puts into the pair
RefreshAccessSubject(u) == UserId(u)
RefreshRefreshSubject(u) == UserId(u)

NoAuthz == [presented |-> "none", decoded |-> NoAccessData("none"),
            out |-> Denied("none"), records |-> FALSE]

AuthInit ==
    /\ authz = NoAuthz
    /\ faults = {}
    /\ now = 0
    /\ active \in SUBSET Users
    /\ permitted \in SUBSET Users
    /\ redis = {}
    /\ refreshTokens = {}
    /\ accessTokens = {}
    /\ calls = [p \in Procs |-> IdleCall]
    /\ nreq = 0
    /\ log = {}
    /\ accepted = {}

\* time passes; the store drops the keys whose time to live has run out
Tick ==
    /\ now < MaxClock
    /\ now' = now + 1
    /\ redis' = {e \in redis : now + 1 <= e.exp}
    /\ UNCHANGED <<active, permitted, refreshTokens, accessTokens, calls,
                   nreq, log, accepted>>

\* POST /login
Login(username, passwordOk) ==
    /\ nreq < MaxRequests
    /\ nreq' = nreq + 1
    /\ LET user == authenticate_user(username, passwordOk)
           solo == InFlight = {}
       IN  IF user = None
           THEN /\ log' = log \cup {Entry("login", nreq + 1, username, Garbage,
                                   "InvalidCredentials", NoPair, solo, FALSE, redis)}
                /\ UNCHANGED <<refreshTokens, accessTokens>>
           ELSE IF ~HasPermissions(user)
           THEN /\ log' = log \cup {Entry("login", nreq + 1, username, Garbage,
                                   "NoPermissions", NoPair, solo, FALSE, redis)}
                /\ UNCHANGED <<refreshTokens, accessTokens>>
           ELSE LET access == create_access_token(LoginAccessSubject(user),
                                                  PermissionsOf(user))
                    refresh == create_refresh_token(LoginRefreshSubject(user),
                                                    FreshFamily)
                IN  /\ accessTokens' = accessTokens \cup {access}
                    /\ refreshTokens' = refreshTokens \cup {refresh}
                    /\ log' = log \cup {Entry("login", nreq + 1, username, Garbage,
                                       "Pair", [access |-> access, refresh |-> refresh],
                                       solo, FALSE, redis)}
    /\ calls' = Overlapped(calls)
    /\ UNCHANGED <<now, active, permitted, redis, accepted>>

\* POST /refresh, lines 309-316: decode_refresh_token
RefreshStart(p, tok) ==
    /\ calls[p].pc = "idle"
    /\ \A q \in Procs : q < p => calls[q].pc # "idle"
    /\ nreq < MaxRequests
    /\ nreq' = nreq + 1
    /\ LET data == decode_refresh_token(tok)
           solo == InFlight = {}
       IN  IF data = NoData
           THEN /\ log' = log \cup {Entry("refresh", nreq + 1, NoId, tok,
                                   "InvalidToken", NoPair, solo, FALSE, redis)}
                /\ calls' = Overlapped(calls)
           ELSE /\ calls' = [Overlapped(calls) EXCEPT ![p] =
                               [pc |-> "check_used", tok |-> tok, data |-> data,
                                req |-> nreq + 1, solo |-> solo,
                                usedAtStart |-> is_token_used(data.jti)]]
                /\ log' = log
    /\ UNCHANGED <<now, active, permitted, redis, refreshTokens, accessTokens,
                   accepted>>

\* line 319: secure_service.is_token_used
RefreshCheckUsed(p) ==
    /\ calls[p].pc = "check_used"
    /\ calls' = [calls EXCEPT ![p].pc =
                   IF is_token_used(calls[p].data.jti) THEN "replay"
                                                       ELSE "check_family"]
    /\ UNCHANGED <<now, active, permitted, redis, refreshTokens, accessTokens,
                   nreq, log, accepted>>

\* lines 322-333: invalidate_token_family, then 401
RefreshReplay(p) ==
    /\ calls[p].pc = "replay"
    /\ redis' = invalidate_token_family(redis, calls[p].data.token_family)
    /\ log' = log \cup {Entry("refresh", calls[p].req, calls[p].data.user_id,
                           calls[p].tok, "ReplayDetected", NoPair,
                           calls[p].solo, calls[p].usedAtStart, redis')}
    /\ calls' = [calls EXCEPT ![p] = IdleCall]
    /\ UNCHANGED <<now, active, permitted, refreshTokens, accessTokens, nreq,
                   accepted>>

\* mutant: a credential of an invalidated family is marked used when it is
\* refused
RefreshCheckFamily_Marks(p) ==
    /\ calls[p].pc = "check_family"
    /\ IF is_token_family_valid(calls[p].data.token_family)
       THEN /\ calls' = [calls EXCEPT ![p].pc = "mark_used"]
            /\ log' = log
            /\ redis' = redis
       ELSE /\ redis' = mark_token_as_used(redis, calls[p].data.jti)
            /\ log' = log \cup {Entry("refresh", calls[p].req,
                                   calls[p].data.user_id, calls[p].tok,
                                   "FamilyInvalidated", NoPair, calls[p].solo,
                                   calls[p].usedAtStart, redis')}
            /\ calls' = [calls EXCEPT ![p] = IdleCall]
    /\ UNCHANGED <<now, active, permitted, refreshTokens, accessTokens,
                   nreq, accepted>>
\* lines 336-340: secure_service.is_token_family_valid
RefreshCheckFamily(p) ==
    /\ calls[p].pc = "check_family"
    /\ IF is_token_family_valid(calls[p].data.token_family)
       THEN /\ calls' = [calls EXCEPT ![p].pc = "mark_used"]
            /\ log' = log
       ELSE /\ log' = log \cup {Entry("refresh", calls[p].req,
                                   calls[p].data.user_id, calls[p].tok,
                                   "FamilyInvalidated", NoPair, calls[p].solo,
                                   calls[p].usedAtStart, redis)}
            /\ calls' = [calls EXCEPT ![p] = IdleCall]
    /\ UNCHANGED <<now, active, permitted, redis, refreshTokens, accessTokens,
                   nreq, accepted>>

\* line 343: secure_service.mark_token_as_used
RefreshMarkUsed(p) ==
    /\ calls[p].pc = "mark_used"
    /\ redis' = mark_token_as_used(redis, calls[p].data.jti)
    /\ accepted' = accepted \cup
          {[req |-> calls[p].req, jti |-> calls[p].data.jti,
            fam |-> calls[p].data.token_family,
            familyInvalid |-> ~is_token_family_valid(calls[p].data.token_family),
            tokenExpired |-> now > calls[p].tok.exp]}
    /\ calls' = [calls EXCEPT ![p].pc = "issue"]
    /\ UNCHANGED <<now, active, permitted, refreshTokens, accessTokens, nreq, log>>

\* lines 346-385: the user, the permissions, the new pair
RefreshIssue(p) ==
    /\ calls[p].pc = "issue"
    /\ LET user == get_user_by_id(calls[p].data.user_id)
           done(out, pair) ==
               log \cup {Entry("refresh", calls[p].req, calls[p].data.user_id,
                               calls[p].tok, out, pair, calls[p].solo,
                               calls[p].usedAtStart, redis)}
       IN  IF user = None \/ user \notin active
           THEN /\ log' = done("UserNotFound", NoPair)
                /\ UNCHANGED <<refreshTokens, accessTokens>>
           ELSE IF ~HasPermissions(user)
           THEN /\ log' = done("NoPermissions", NoPair)
                /\ UNCHANGED <<refreshTokens, accessTokens>>
           ELSE LET access == create_access_token(RefreshAccessSubject(user),
                                                  PermissionsOf(user))
                    refresh == create_refresh_token(RefreshRefreshSubject(user),
                                                    calls[p].data.token_family)
                IN  /\ accessTokens' = accessTokens \cup {access}
                    /\ refreshTokens' = refreshTokens \cup {refresh}
                    /\ log' = done("Pair", [access |-> access, refresh |-> refresh])
    /\ calls' = [calls EXCEPT ![p] = IdleCall]
    /\ UNCHANGED <<now, active, permitted, redis, nreq, accepted>>

\* a refresh credential that carries a document id, made by a direct call of
\* create_refresh_token (helpers.py, lines 156-190) with a new family
MintRefresh(user_id) ==
    /\ nreq < MaxRequests
    /\ nreq' = nreq + 1
    /\ refreshTokens' = refreshTokens
                           \cup {create_refresh_token(user_id, FreshFamily)}
    /\ UNCHANGED <<now, active, permitted, redis, accessTokens, calls, log,
                   accepted>>

\* POST /logout
Logout(tok) ==
    /\ nreq < MaxRequests
    /\ nreq' = nreq + 1
    /\ LET data == decode_refresh_token(tok)
       IN  /\ redis' = IF data # NoData THEN mark_token_as_used(redis, data.jti)
                                      ELSE redis
           /\ log' = log \cup {Entry("logout", nreq + 1,
                               IF data = NoData THEN NoId ELSE data.user_id,
                               tok, "Success", NoPair, InFlight = {},
                               tok.type = "refresh" /\ is_token_used(tok.jti),
                               redis')}
    /\ calls' = Overlapped(calls)
    /\ UNCHANGED <<now, active, permitted, refreshTokens, accessTokens, accepted>>

\* POST /logout-all
LogoutAll(tok) ==
    /\ nreq < MaxRequests
    /\ nreq' = nreq + 1
    /\ LET data == decode_refresh_token(tok)
       IN  IF data = NoData
           THEN /\ log' = log \cup {Entry("logout_all", nreq + 1, NoId, tok,
                                   "InvalidToken", NoPair, InFlight = {}, FALSE, redis)}
                /\ redis' = redis
           ELSE /\ redis' = revoke_all_user_tokens(redis, data.user_id)
                /\ log' = log \cup {Entry("logout_all", nreq + 1, data.user_id,
                                   tok, "Success", NoPair, InFlight = {},
                                   is_token_used(data.jti), redis')}
    /\ calls' = Overlapped(calls)
    /\ UNCHANGED <<now, active, permitted, refreshTokens, accessTokens, accepted>>

\* a call of create_access_token with a subject, scopes and a lifetime
MintAccess(sub, scopes, expires_delta) ==
    /\ nreq < MaxRequests
    /\ Cardinality(accessTokens) < MaxTokens
    /\ nreq' = nreq + 1
    /\ accessTokens' = accessTokens \cup {IssueAccess(sub, scopes, expires_delta)}
    /\ UNCHANGED <<now, active, permitted, redis, refreshTokens, calls, log,
                   accepted, authz, faults>>

\* get_current_active_user: every protected endpoint requires the scope "me"
RequiredScopes == {"me"}

\* a request to an endpoint that depends on get_current_active_user, with
\* the bearer token tok; noted are the decoded payload, the answer and
\* whether the TTL store held a record
Authorize(tok) ==
    /\ authz' = [presented |-> tok.type,
                 decoded |-> DecodeAccess(tok),
                 out |-> get_current_user(tok, RequiredScopes),
                 records |-> redis # {}]
    /\ UNCHANGED <<now, active, permitted, redis, refreshTokens, accessTokens,
                   calls, nreq, log, accepted, faults>>

\* POST /refresh, lines 319, 322, 336 and 343: the call to the TTL store
\* raises (the store is down or times out).  No handler catches it: the
\* request ends with the exception and nothing is written.
RefreshStoreFails(p) ==
    /\ calls[p].pc \in {"check_used", "replay", "check_family", "mark_used"}
    /\ faults' = faults \cup {calls[p].req}
    /\ log' = log \cup {Entry("refresh", calls[p].req, calls[p].data.user_id,
                           calls[p].tok, "UnhandledException", NoPair,
                           calls[p].solo, calls[p].usedAtStart, redis)}
    /\ calls' = [calls EXCEPT ![p] = IdleCall]
    /\ UNCHANGED <<now, active, permitted, redis, refreshTokens, accessTokens,
                   nreq, accepted, authz>>

(***************************************************************************)
(* The token-bucket rate limiter: middleware/rate_limiting.py.             *)
(*                                                                         *)
(* One tick of `time` is one second.  Token counts are kept in units of    *)
(* 1/Scale token, so that refill_rate = RefillPerTick / Scale tokens per   *)
(* second is exact.                                                        *)
(***************************************************************************)
RLMaxClock == 4
\* bucket_capacity, in whole tokens
Capacity == 2
Scale == 2
RefillPerTick == 1
\* cleanup_interval, in seconds
CleanupInterval == 1

Clients == {"a"}
\* the tasks that serve requests; a request takes the first free one
Threads == {1, 2}

VARIABLES
    config,        \* the middleware's configuration: bucket_capacity in whole
                   \* tokens, refill_rate in 1/Scale token per second,
                   \* cleanup_interval in seconds, the set exclude_paths
    time,          \* time.time()
    heap,          \* the TokenBucket objects ever created
    registry,      \* self.buckets: [client, bucket] in insertion order
    bucket_lock,   \* holder of self.bucket_lock, 0 when free
    last_cleanup,  \* self.last_cleanup
    threads,       \* the requests in dispatch, one per task
    admits,        \* history: admissions per client and instant
    instant        \* history: per client, the second of its latest consume,
                   \* the whole tokens its bucket held then, whether a
                   \* request was rejected in it, whether the bucket was new

rlVars == <<config, time, heap, registry, bucket_lock, last_cleanup, threads, admits,
            instant>>

IdleThread == [pc |-> "idle", client |-> "a", bucket |-> 0, now |-> 0,
               scan |-> <<>>, to_remove |-> {}, allowed |-> "none",
               remaining |-> 0, retry_after |-> 0]

Min(a, b) == IF a <= b THEN a ELSE b

\* TokenBucket.__init__
NewBucket == [tokens |-> config.capacity * Scale, last_refill |-> time,
              lock |-> 0]

\* mutant: no token is gained as time passes
Refilled_NoGain(b) == [b EXCEPT !.last_refill = time]
\* mutant: the refill is not capped at the capacity
Refilled_NoCap(b) ==
    [b EXCEPT !.tokens = b.tokens + (time - b.last_refill) * config.refill_rate,
              !.last_refill = time]
\* TokenBucket._refill
Refilled(b) ==
    [b EXCEPT !.tokens = Min(config.capacity * Scale,
                             b.tokens
                               + (time - b.last_refill) * config.refill_rate),
              !.last_refill = time]

\* consume, line 76: self.tokens >= tokens, for one token
HasTokens_Strict(b) == b.tokens > Scale
HasTokens(b) == b.tokens >= Scale

\* _cleanup_old_buckets, lines 197-198: the bucket, just refilled by
\* get_available_tokens(), is full and idle for longer than the interval
IsOld_FullOnly(b, now_) == b.tokens >= config.capacity * Scale
IsOld(b, now_) ==
    /\ b.tokens >= config.capacity * Scale
    /\ now_ - b.last_refill > config.cleanup_interval

\* dispatch, line 270: retry_after = int(1 / self.refill_rate) + 1
RetryAfter_NoRoundUp == Scale \div config.refill_rate
RetryAfter == (Scale \div config.refill_rate) + 1

\* `with self.lock` of a bucket: the caller waits until the lock is free
BucketLockFree_NoLock(b) == TRUE
\* mutant: taking a bucket's lock needs the registry lock as well
BucketLockFree_NeedsRegistry(b) == heap[b].lock = 0 /\ bucket_lock = 0
BucketLockFree(b) == heap[b].lock = 0
\* `with self.bucket_lock` of the registry
RegistryLockFree == bucket_lock = 0

InRegistry(c) == \E i \in 1..Len(registry) : registry[i].client = c
BucketOf(c) == (CHOOSE e \in {registry[i] : i \in 1..Len(registry)} :
                    e.client = c).bucket

\* RateLimitMiddleware.__init__ with the configuration cfg
RLInitWith(cfg) ==
    /\ config = cfg
    /\ time = 0
    /\ heap = <<>>
    /\ registry = <<>>
    /\ bucket_lock = 0
    /\ last_cleanup = 0
    /\ threads = [t \in Threads |-> IdleThread]
    /\ admits = [c \in Clients |-> [s \in 0..RLMaxClock |-> 0]]
    /\ instant = [c \in Clients |-> [at |-> -1, whole |-> 0, rejected |-> FALSE,
                                     fresh |-> FALSE]]

\* as main.py configures it: no exclude_paths
RLInit == RLInitWith([capacity |-> Capacity, refill_rate |-> RefillPerTick,
                      cleanup_interval |-> CleanupInterval,
                      exclude_paths |-> {}])

\* the clock advances
RLTick ==
    /\ time < RLMaxClock
    /\ time' = time + 1
    /\ UNCHANGED <<heap, registry, bucket_lock, last_cleanup, threads, admits,
                   instant>>

\* dispatch, lines 240-241 and 186-190: the request of client c arrives;
\* _cleanup_old_buckets returns at once unless a sweep is due
Dispatch(t, c) ==
    /\ threads[t].pc = "idle"
    /\ \A u \in Threads : u < t => threads[u].pc # "idle"
    /\ threads' = [threads EXCEPT ![t] =
          IF time - last_cleanup < config.cleanup_interval
          THEN [IdleThread EXCEPT !.client = c, !.pc = "get"]
          ELSE [IdleThread EXCEPT !.client = c, !.pc = "sweep", !.now = time]]
    /\ UNCHANGED <<time, heap, registry, bucket_lock, last_cleanup, admits,
                   instant>>

\* _should_exclude_path, line 220: path in self.exclude_paths
\* mutant: no path is excluded
should_exclude_path_Never(path) == FALSE
should_exclude_path(path) == path \in config.exclude_paths

\* dispatch, lines 236-241: a request for an excluded path goes to the
\* handler at once (return await call_next(request)); any other request
\* goes on to the sweep and the bucket
DispatchPath(t, c, path) ==
    IF should_exclude_path(path)
    THEN /\ threads[t].pc = "idle"
         /\ \A u \in Threads : u < t => threads[u].pc # "idle"
         /\ threads' = [threads EXCEPT ![t] =
               [IdleThread EXCEPT !.client = c, !.pc = "done",
                                  !.allowed = "forward"]]
         /\ UNCHANGED <<time, heap, registry, bucket_lock, last_cleanup, admits,
                        instant>>
    ELSE Dispatch(t, c)

\* line 192: with self.bucket_lock
SweepLock(t) ==
    /\ threads[t].pc = "sweep"
    /\ RegistryLockFree
    /\ bucket_lock' = t
    /\ threads' = [threads EXCEPT ![t].pc = "scan",
                                  ![t].scan = [i \in 1..Len(registry) |->
                                                  registry[i]],
                                  ![t].to_remove = {}]
    /\ UNCHANGED <<time, heap, registry, last_cleanup, admits, instant>>

\* lines 194-199, one bucket of the comprehension: get_available_tokens()
\* takes the bucket's lock and refills it, and only then is last_refill read
SweepScan(t) ==
    /\ threads[t].pc = "scan"
    /\ threads[t].scan # <<>>
    /\ LET e == Head(threads[t].scan)
           b == e.bucket
           after == Refilled(heap[b])
           old == IsOld(after, threads[t].now)
       IN  /\ BucketLockFree(b)
           /\ heap' = [heap EXCEPT ![b] = after]
           /\ threads' = [threads EXCEPT
                 ![t].scan = Tail(threads[t].scan),
                 ![t].to_remove = IF old THEN threads[t].to_remove \cup {e.client}
                                         ELSE threads[t].to_remove]
    /\ UNCHANGED <<time, registry, bucket_lock, last_cleanup, admits, instant>>

\* lines 201-208: delete the old buckets, note the sweep, release the lock
SweepFinish(t) ==
    /\ threads[t].pc = "scan"
    /\ threads[t].scan = <<>>
    /\ registry' = SelectSeq(registry,
                             LAMBDA e : e.client \notin threads[t].to_remove)
    /\ last_cleanup' = threads[t].now
    /\ bucket_lock' = 0
    /\ threads' = [threads EXCEPT ![t].pc = "get", ![t].now = 0,
                                  ![t].to_remove = {}]
    /\ UNCHANGED <<time, heap, admits, instant>>

\* _get_or_create_bucket, lines 170-171 and 177: under the registry lock,
\* the bucket of a known client is returned
GetBucket(t) ==
    /\ threads[t].pc = "get"
    /\ RegistryLockFree
    /\ IF InRegistry(threads[t].client)
       THEN /\ threads' = [threads EXCEPT ![t].pc = "consume",
                              ![t].bucket = BucketOf(threads[t].client)]
            /\ bucket_lock' = bucket_lock
       ELSE /\ threads' = [threads EXCEPT ![t].pc = "create"]
            /\ bucket_lock' = t
    /\ UNCHANGED <<time, heap, registry, last_cleanup, admits, instant>>

\* lines 172-177: a new client gets a full bucket; the lock is released
CreateBucket(t) ==
    /\ threads[t].pc = "create"
    /\ heap' = Append(heap, NewBucket)
    /\ registry' =
          IF InRegistry(threads[t].client)
          THEN [i \in 1..Len(registry) |->
                  IF registry[i].client = threads[t].client
                  THEN [registry[i] EXCEPT !.bucket = Len(heap) + 1]
                  ELSE registry[i]]
          ELSE Append(registry, [client |-> threads[t].client,
                                 bucket |-> Len(heap) + 1])
    /\ bucket_lock' = 0
    /\ threads' = [threads EXCEPT ![t].pc = "consume",
                                  ![t].bucket = Len(heap) + 1]
    /\ instant' = [instant EXCEPT ![threads[t].client] =
                      [at |-> time, whole |-> config.capacity, rejected |-> FALSE,
                       fresh |-> TRUE]]
    /\ UNCHANGED <<time, last_cleanup, admits>>

\* consume, lines 73-74: with self.lock, then _refill.  The `now` that
\* _refill reads is the instant of the request.
ConsumeRefill(t) ==
    /\ threads[t].pc = "consume"
    /\ LET b == threads[t].bucket
           c == threads[t].client
           after == Refilled(heap[b])
       IN  /\ BucketLockFree(b)
           /\ heap' = [heap EXCEPT ![b] = [after EXCEPT !.lock = t]]
           /\ instant' = IF instant[c].at = time THEN instant
                         ELSE [instant EXCEPT ![c] =
                                 [at |-> time, whole |-> after.tokens \div Scale,
                                  rejected |-> FALSE, fresh |-> FALSE]]
    /\ threads' = [threads EXCEPT ![t].pc = "test", ![t].now = time]
    /\ UNCHANGED <<time, registry, bucket_lock, last_cleanup, admits>>

\* line 76 and 79: if self.tokens >= tokens ... return False
ConsumeTest(t) ==
    /\ threads[t].pc = "test"
    /\ LET b == threads[t].bucket
           c == threads[t].client
       IN  IF HasTokens(heap[b])
           THEN /\ threads' = [threads EXCEPT ![t].pc = "take"]
                /\ UNCHANGED <<heap, instant>>
           ELSE /\ heap' = [heap EXCEPT ![b].lock = 0]
                /\ threads' = [threads EXCEPT ![t].pc = "done",
                                              ![t].allowed = "reject",
                                              ![t].retry_after = RetryAfter,
                                              ![t].now = 0]
                /\ instant' = [instant EXCEPT ![c].rejected = TRUE]
    /\ UNCHANGED <<time, registry, bucket_lock, last_cleanup, admits>>

\* lines 77-78: self.tokens -= tokens; return True
ConsumeTake(t) ==
    /\ threads[t].pc = "take"
    /\ LET b == threads[t].bucket
           c == threads[t].client
       IN  /\ heap' = [heap EXCEPT ![b].tokens = heap[b].tokens - Scale,
                                   ![b].lock = 0]
           /\ admits' = [admits EXCEPT ![c][threads[t].now] = @ + 1]
    /\ threads' = [threads EXCEPT ![t].pc = "read_log",
                                  ![t].allowed = "admit",
                                  ![t].now = 0]
    /\ UNCHANGED <<time, registry, bucket_lock, last_cleanup, instant>>

\* get_available_tokens, called at line 254 (the log message) and, after
\* call_next, at line 261 (the X-RateLimit-Remaining header)
ReadAvailable(t) ==
    /\ threads[t].pc \in {"read_log", "read_header"}
    /\ LET b == threads[t].bucket
           after == Refilled(heap[b])
       IN  /\ BucketLockFree(b)
           /\ heap' = [heap EXCEPT ![b] = after]
           /\ threads' = [threads EXCEPT
                 ![t].pc = IF threads[t].pc = "read_log" THEN "read_header"
                                                          ELSE "done",
                 ![t].remaining = after.tokens \div Scale]
    /\ UNCHANGED <<time, registry, bucket_lock, last_cleanup, admits, instant>>

\* the response is sent (lines 264 and 272-284); the task is free again
Respond(t) ==
    /\ threads[t].pc = "done"
    /\ threads' = [threads EXCEPT ![t] = IdleThread]
    /\ UNCHANGED <<time, heap, registry, bucket_lock, last_cleanup, admits,
                   instant>>

(***************************************************************************)
(* E-mail verification: services/verification.py and the endpoints         *)
(* /verification/email/send and /verification/email of routers/auth.py.    *)
(*                                                                         *)
(* One tick of `now` is CODE_EXPIRY / CodeExpiry.  A code is a string,     *)
(* modelled as the sequence of its characters.                             *)
(***************************************************************************)
\* CODE_EXPIRY (10 minutes), in ticks
CodeExpiry == 2
CODE_LENGTH == 6
MAX_ATTEMPTS == 5

Digits == {"0", "1", "2", "3", "4", "5", "6", "7", "8", "9"}
\* the codes generate_verification_code draws in this model
Codes == {<<"1", "1", "1", "1", "1", "1">>, <<"2", "2", "2", "2", "2", "2">>}
\* what a client may submit: a code, or a string that is not six digits
Submittable == Codes \cup {<<"1", "1", "1", "1", "1", "x">>}
NoCode == <<>>
\* the addresses of the LandLord documents
VEmails == {Email(u) : u \in Users}

VARIABLES
    vredis,     \* the service's keys in the TTL store: a set of [key, val, exp]
    verified,   \* the addresses whose LandLord document has verified = True
    pending,    \* history: addresses for which a code was stored and
                \* verify_code was not called since
    vlast       \* history: the latest request to the two endpoints

verifVars == <<vredis, verified, pending, vlast>>

CodeKey(email) == <<"email:verification:", email>>
AttemptsKey(email) == <<"attempts:", email>>

\* GET key: the value, if the key is set and its time to live has not run out
VGet(store, key, default) ==
    IF \E e \in store : e.key = key /\ now < e.exp
    THEN (CHOOSE e \in store : e.key = key /\ now < e.exp).val
    ELSE default
\* SETEX key ttl value
VSetex(store, key, ttl, val) ==
    {e \in store : e.key # key} \cup {[key |-> key, val |-> val, exp |-> now + ttl]}
\* INCR key: the time to live of the key is kept
VIncr(store, key) ==
    {IF e.key = key THEN [e EXCEPT !.val = e.val + 1] ELSE e : e \in store}
\* DEL key
VDelete(store, keys) == {e \in store : e.key \notin keys}

\* _store_code, lines 120-129: the attempts counter is not touched
store_code(store, email, code) == VSetex(store, CodeKey(email), CodeExpiry, code)
\* _get_stored_code
get_stored_code(store, email) == VGet(store, CodeKey(email), NoCode)
\* _get_attempts
get_attempts(store, email) == VGet(store, AttemptsKey(email), 0)
\* _increment_attempts, lines 179-184
increment_attempts(store, email) ==
    IF \E e \in store : e.key = AttemptsKey(email) /\ now < e.exp
    THEN VIncr(store, AttemptsKey(email))
    ELSE VSetex(store, AttemptsKey(email), CodeExpiry, 1)
\* _cleanup_verification
cleanup_verification(store, email) ==
    VDelete(store, {CodeKey(email), AttemptsKey(email)})

\* verify_code, lines 100-118: the tuple (result, status, message) it
\* returns and the store it leaves
verify_code(store, email, code) ==
    IF get_attempts(store, email) >= MAX_ATTEMPTS
    THEN [ret |-> <<FALSE, 429, "TooManyAttempts">>,
          store |-> cleanup_verification(store, email)]
    ELSE IF get_stored_code(store, email) = NoCode
    THEN [ret |-> <<FALSE, 400, "ExpiredOrNotFound">>, store |-> store]
    ELSE IF code # get_stored_code(store, email)
    THEN [ret |-> <<FALSE, 401, "InvalidCode">>,
          store |-> increment_attempts(store, email)]
    ELSE [ret |-> <<TRUE, 200, "Verified">>,
          store |-> cleanup_verification(store, email)]

\* Python's `not x` for a tuple x: true of the empty tuple only
Not(tuple) == Len(tuple) = 0

\* auth.py, line 193: submitted_code.isdigit() and len(...) == CODE_LENGTH
WellFormed(code) ==
    /\ Len(code) = CODE_LENGTH
    /\ \A i \in 1..Len(code) : code[i] \in Digits

NoRequest == [op |-> "none", email |-> NoId, code |-> NoCode, ret |-> <<>>,
              status |-> 0, marked |-> FALSE, stored |-> NoCode,
              attempts |-> 0, fresh |-> FALSE]

VerifInit ==
    /\ vredis = {}
    /\ verified = {}
    /\ pending = {}
    /\ vlast = NoRequest

\* the clock advances; keys whose time to live has run out are gone
VTick ==
    /\ now < MaxClock
    /\ now' = now + 1
    /\ vredis' = {e \in vredis : now + 1 < e.exp}
    /\ UNCHANGED <<verified, pending, vlast>>

\* resend_verification_code, lines 120-134, and the background task
\* send_verification_code, lines 69-73: a new code replaces the stored one
SendCode(email, code) ==
    /\ vredis' = store_code(vredis, email, code)
    /\ pending' = pending \cup {email}
    /\ vlast' = [NoRequest EXCEPT !.op = "send", !.email = email, !.code = code,
                                  !.status = 200,
                                  !.stored = get_stored_code(vredis, email),
                                  !.attempts = get_attempts(vredis, email)]
    /\ UNCHANGED <<now, verified>>

\* verify_email_code, lines 190-234
VerifyEmail(email, code) ==
    LET r == verify_code(vredis, email, code)
        seen == [NoRequest EXCEPT !.op = "verify", !.email = email,
                                  !.code = code,
                                  !.stored = get_stored_code(vredis, email),
                                  !.attempts = get_attempts(vredis, email),
                                  !.fresh = email \in pending]
    IN  /\ IF ~WellFormed(code)
           THEN /\ vlast' = [seen EXCEPT !.status = 400]
                /\ UNCHANGED <<vredis, verified, pending>>
           ELSE /\ vredis' = r.store
                /\ pending' = pending \ {email}
                /\ IF Not(r.ret)
                   THEN /\ vlast' = [seen EXCEPT !.ret = r.ret, !.status = 400]
                        /\ UNCHANGED verified
                   ELSE IF email \notin VEmails \/ email \in verified
                   THEN /\ vlast' = [seen EXCEPT !.ret = r.ret, !.status = 404]
                        /\ UNCHANGED verified
                   ELSE /\ verified' = verified \cup {email}
                        /\ vlast' = [seen EXCEPT !.ret = r.ret, !.status = 200,
                                                 !.marked = TRUE]
        /\ UNCHANGED now

(***************************************************************************)
(* The specifications.                                                     *)
(***************************************************************************)
vars == <<authVars, rlVars, verifVars>>

\* the credential lifecycle
Init == AuthInit /\ RLInit /\ VerifInit
\* what no step of the access validation changes
fixedAccess == <<rlVars, verifVars>>
\* what no step of the session issuer changes
fixedAuth == <<rlVars, authz, faults, verifVars>>
Next ==
    \/ Tick /\ UNCHANGED fixedAuth
    \/ \E u \in Users, ok \in BOOLEAN : Login(Email(u), ok) /\ UNCHANGED fixedAuth
    \/ Login(UnknownEmail, TRUE) /\ UNCHANGED fixedAuth
    \/ \E p \in Procs, tok \in Presentable :
          RefreshStart(p, tok) /\ UNCHANGED fixedAuth
    \/ \E p \in Procs : RefreshCheckUsed(p) /\ UNCHANGED fixedAuth
    \/ \E p \in Procs : RefreshReplay(p) /\ UNCHANGED fixedAuth
    \/ \E p \in Procs : RefreshCheckFamily(p) /\ UNCHANGED fixedAuth
    \/ \E p \in Procs : RefreshMarkUsed(p) /\ UNCHANGED fixedAuth
    \/ \E p \in Procs : RefreshIssue(p) /\ UNCHANGED fixedAuth
    \/ \E tok \in Presentable : Logout(tok) /\ UNCHANGED fixedAuth
    \/ \E tok \in Presentable : LogoutAll(tok) /\ UNCHANGED fixedAuth
Spec == Init /\ [][Next]_vars

\* what no step of the rate limiter changes
fixedRL == <<authVars, config, verifVars>>

\* the rate limiter
NextRL ==
    \/ RLTick /\ UNCHANGED fixedRL
    \/ \E t \in Threads, c \in Clients : Dispatch(t, c) /\ UNCHANGED fixedRL
    \/ \E t \in Threads : SweepLock(t) /\ UNCHANGED fixedRL
    \/ \E t \in Threads : SweepScan(t) /\ UNCHANGED fixedRL
    \/ \E t \in Threads : SweepFinish(t) /\ UNCHANGED fixedRL
    \/ \E t \in Threads : GetBucket(t) /\ UNCHANGED fixedRL
    \/ \E t \in Threads : CreateBucket(t) /\ UNCHANGED fixedRL
    \/ \E t \in Threads : ConsumeRefill(t) /\ UNCHANGED fixedRL
    \/ \E t \in Threads : ConsumeTest(t) /\ UNCHANGED fixedRL
    \/ \E t \in Threads : ConsumeTake(t) /\ UNCHANGED fixedRL
    \/ \E t \in Threads : ReadAvailable(t) /\ UNCHANGED fixedRL
    \/ \E t \in Threads : Respond(t) /\ UNCHANGED fixedRL
InitRL == AuthInit /\ active = Users /\ permitted = Users /\ RLInit /\ VerifInit
SpecRL == InitRL /\ [][NextRL]_vars

\* The rate limiter under fair scheduling: a task that can take a step again
\* and again (a lock it waits for is free again and again) takes it in the
\* end.  Requests need not arrive, and the clock need not advance.
Serve(t) ==
    \/ SweepLock(t) \/ SweepScan(t) \/ SweepFinish(t)
    \/ GetBucket(t) \/ CreateBucket(t)
    \/ ConsumeRefill(t) \/ ConsumeTest(t) \/ ConsumeTake(t)
    \/ ReadAvailable(t) \/ Respond(t)
FairRL == \A t \in Threads : SF_vars(Serve(t) /\ UNCHANGED fixedRL)
\* the seconds the fair specification follows: enough for a sweep to be due
FairMaxClock == 2
NextRLFair ==
    \/ (time < FairMaxClock /\ RLTick) /\ UNCHANGED fixedRL
    \/ \E t \in Threads, c \in Clients : Dispatch(t, c) /\ UNCHANGED fixedRL
    \/ \E t \in Threads : SweepLock(t) /\ UNCHANGED fixedRL
    \/ \E t \in Threads : SweepScan(t) /\ UNCHANGED fixedRL
    \/ \E t \in Threads : SweepFinish(t) /\ UNCHANGED fixedRL
    \/ \E t \in Threads : GetBucket(t) /\ UNCHANGED fixedRL
    \/ \E t \in Threads : CreateBucket(t) /\ UNCHANGED fixedRL
    \/ \E t \in Threads : ConsumeRefill(t) /\ UNCHANGED fixedRL
    \/ \E t \in Threads : ConsumeTest(t) /\ UNCHANGED fixedRL
    \/ \E t \in Threads : ConsumeTake(t) /\ UNCHANGED fixedRL
    \/ \E t \in Threads : ReadAvailable(t) /\ UNCHANGED fixedRL
    \/ \E t \in Threads : Respond(t) /\ UNCHANGED fixedRL
SpecRLFair == InitRL /\ [][NextRLFair]_vars /\ FairRL

\* The rate limiter configured with capacity = 5, refill rate = 1 token per
\* second and the default cleanup_interval of 3600 seconds, serving the
\* requests of a client one after the other.  No sweep is due within
\* RLMaxClock seconds.
ScenarioConfig == [capacity |-> 5, refill_rate |-> Scale,
                   cleanup_interval |-> 3600, exclude_paths |-> {}]
InitScenario ==
    /\ AuthInit /\ active = Users /\ permitted = Users
    /\ RLInitWith(ScenarioConfig) /\ VerifInit
NextScenario ==
    \/ RLTick /\ UNCHANGED fixedRL
    \/ \E c \in Clients : Dispatch(1, c) /\ UNCHANGED fixedRL
    \/ GetBucket(1) /\ UNCHANGED fixedRL
    \/ CreateBucket(1) /\ UNCHANGED fixedRL
    \/ ConsumeRefill(1) /\ UNCHANGED fixedRL
    \/ ConsumeTest(1) /\ UNCHANGED fixedRL
    \/ ConsumeTake(1) /\ UNCHANGED fixedRL
    \/ ReadAvailable(1) /\ UNCHANGED fixedRL
    \/ Respond(1) /\ UNCHANGED fixedRL
SpecScenario == InitScenario /\ [][NextScenario]_vars

\* The rate limiter configured with an exclusion set; requests ask for an
\* excluded path, for one that differs from it by a trailing slash, or for
\* another.
Paths == {"/health", "/health/", "/api"}
ExcludingConfig == [capacity |-> Capacity, refill_rate |-> RefillPerTick,
                    cleanup_interval |-> CleanupInterval,
                    exclude_paths |-> {"/health"}]
InitPaths ==
    /\ AuthInit /\ active = Users /\ permitted = Users
    /\ RLInitWith(ExcludingConfig) /\ VerifInit
NextPaths ==
    \/ RLTick /\ UNCHANGED fixedRL
    \/ \E t \in Threads, c \in Clients, path \in Paths :
          DispatchPath(t, c, path) /\ UNCHANGED fixedRL
    \/ \E t \in Threads : SweepLock(t) /\ UNCHANGED fixedRL
    \/ \E t \in Threads : SweepScan(t) /\ UNCHANGED fixedRL
    \/ \E t \in Threads : SweepFinish(t) /\ UNCHANGED fixedRL
    \/ \E t \in Threads : GetBucket(t) /\ UNCHANGED fixedRL
    \/ \E t \in Threads : CreateBucket(t) /\ UNCHANGED fixedRL
    \/ \E t \in Threads : ConsumeRefill(t) /\ UNCHANGED fixedRL
    \/ \E t \in Threads : ConsumeTest(t) /\ UNCHANGED fixedRL
    \/ \E t \in Threads : ConsumeTake(t) /\ UNCHANGED fixedRL
    \/ \E t \in Threads : ReadAvailable(t) /\ UNCHANGED fixedRL
    \/ \E t \in Threads : Respond(t) /\ UNCHANGED fixedRL
SpecPaths == InitPaths /\ [][NextPaths]_vars

\* The session issuer presented with refresh credentials that carry a
\* document id, as refresh_access_token expects them, besides those Login
\* mints; requests are served one after the other, for accounts that are
\* active or not and have permissions or not.
NextRotate ==
    \/ Tick /\ UNCHANGED fixedAuth
    \/ \E u \in Users : MintRefresh(UserId(u)) /\ UNCHANGED fixedAuth
    \/ \E u \in Users : Login(Email(u), TRUE) /\ UNCHANGED fixedAuth
    \/ \E tok \in Presentable : RefreshStart(1, tok) /\ UNCHANGED fixedAuth
    \/ RefreshCheckUsed(1) /\ UNCHANGED fixedAuth
    \/ RefreshReplay(1) /\ UNCHANGED fixedAuth
    \/ RefreshCheckFamily(1) /\ UNCHANGED fixedAuth
    \/ RefreshMarkUsed(1) /\ UNCHANGED fixedAuth
    \/ RefreshIssue(1) /\ UNCHANGED fixedAuth
    \/ \E tok \in Presentable : Logout(tok) /\ UNCHANGED fixedAuth
SpecRotate == Init /\ [][NextRotate]_vars

\* E-mail verification: codes are sent and submitted, one request after
\* the other, while the clock advances.
fixedVerif == <<active, permitted, redis, refreshTokens, accessTokens, calls,
                nreq, log, accepted, authz, faults, rlVars>>
NextVerify ==
    \/ VTick /\ UNCHANGED fixedVerif
    \/ \E email \in VEmails, code \in Codes :
          SendCode(email, code) /\ UNCHANGED fixedVerif
    \/ \E email \in VEmails, code \in Submittable :
          VerifyEmail(email, code) /\ UNCHANGED fixedVerif
SpecVerify == InitRL /\ [][NextVerify]_vars

\* The credential lifecycle with its surroundings: the endpoints that
\* validate access credentials, and a TTL store that may fail.  Refresh
\* requests are served one after the other.
NextEnv ==
    \/ Tick /\ UNCHANGED fixedAuth
    \/ \E u \in Users : Login(Email(u), TRUE) /\ UNCHANGED fixedAuth
    \/ \E tok \in accessTokens : Authorize(tok) /\ UNCHANGED fixedAccess
    \/ \E tok \in Presentable : RefreshStart(1, tok) /\ UNCHANGED fixedAuth
    \/ RefreshCheckUsed(1) /\ UNCHANGED fixedAuth
    \/ RefreshReplay(1) /\ UNCHANGED fixedAuth
    \/ RefreshCheckFamily(1) /\ UNCHANGED fixedAuth
    \/ RefreshMarkUsed(1) /\ UNCHANGED fixedAuth
    \/ RefreshIssue(1) /\ UNCHANGED fixedAuth
    \/ RefreshStoreFails(1) /\ UNCHANGED fixedAccess
    \/ \E tok \in Presentable : Logout(tok) /\ UNCHANGED fixedAuth
    \/ \E tok \in Presentable : LogoutAll(tok) /\ UNCHANGED fixedAuth
SpecEnv == InitRL /\ [][NextEnv]_vars

\* Credentials of either kind presented to every endpoint: the refresh
\* endpoints receive access credentials as well, and the protected
\* endpoints receive refresh credentials as bearer tokens.
EitherKind == accessTokens \cup refreshTokens
NextKinds ==
    \/ Tick /\ UNCHANGED fixedAuth
    \/ \E u \in Users : Login(Email(u), TRUE) /\ UNCHANGED fixedAuth
    \/ \E tok \in EitherKind : Authorize(tok) /\ UNCHANGED fixedAccess
    \/ \E tok \in EitherKind : RefreshStart(1, tok) /\ UNCHANGED fixedAuth
    \/ RefreshCheckUsed(1) /\ UNCHANGED fixedAuth
    \/ RefreshReplay(1) /\ UNCHANGED fixedAuth
    \/ RefreshCheckFamily(1) /\ UNCHANGED fixedAuth
    \/ RefreshMarkUsed(1) /\ UNCHANGED fixedAuth
    \/ RefreshIssue(1) /\ UNCHANGED fixedAuth
    \/ \E tok \in EitherKind : Logout(tok) /\ UNCHANGED fixedAuth
    \/ \E tok \in EitherKind : LogoutAll(tok) /\ UNCHANGED fixedAuth
SpecKinds == InitRL /\ [][NextKinds]_vars

\* The access-credential codec alone: create_access_token applied to
\* subjects, scopes and lifetimes, and get_current_user applied to the
\* tokens it made, to refresh credentials and to strings that are no token.
Subjects == {Email(u) : u \in Users} \cup {UserId(u) : u \in Users}
AccessInputs == accessTokens \cup refreshTokens \cup {Garbage, NotJson}
NextAccess ==
    \/ Tick /\ UNCHANGED fixedAuth
    \/ \E u \in Users : Login(Email(u), TRUE) /\ UNCHANGED fixedAuth
    \/ \E sub \in Subjects, scopes \in SUBSET {"me"}, ttl \in 0..AccessTTL :
          MintAccess(sub, scopes, ttl) /\ UNCHANGED fixedAccess
    \/ \E tok \in AccessInputs : Authorize(tok) /\ UNCHANGED fixedAccess
SpecAccess == InitRL /\ [][NextAccess]_vars

(***************************************************************************)
(* Properties of the credential lifecycle.                                 *)
(***************************************************************************)
Refreshes == {e \in log : e.op = "refresh"}
Families == {t.token_family : t \in refreshTokens}
Jtis == {t.jti : t \in refreshTokens}
TokenOf(jti) == CHOOSE t \in refreshTokens : t.jti = jti

\* the unexpired credentials of a family that no Used-Credential Record marks
Unconsumed(fam) ==
    {t \in refreshTokens : /\ t.token_family = fam
                           /\ now <= t.exp
                           /\ ~is_token_used(t.jti)}

\* C1: under any interleaving, each refresh credential is successfully
\* consumed by at most one Refresh call (at most one call that presents a
\* given jti passes the replay check and writes its Used-Credential Record,
\* and at most one returns a new pair), and a token family never has more
\* than one unexpired credential without a Used-Credential Record.
C1_ConsumedAtMostOnce ==
    /\ \A a, b \in accepted : a.jti = b.jti => a.req = b.req
    /\ \A a, b \in Refreshes :
          (a.jti = b.jti /\ a.out = "Pair" /\ b.out = "Pair") => a.req = b.req
    /\ \A fam \in Families : Cardinality(Unconsumed(fam)) <= 1

\* C2: a Refresh presented a decodable, unexpired credential whose jti
\* already has a Used-Credential Record fails with ReplayDetected, issues no
\* credential, and a Family-Invalidation Record of the credential's family
\* exists when it returns.
C2_ReplayInvalidatesFamily ==
    \A e \in Refreshes :
        (e.out # "InvalidToken" /\ e.usedAtStart /\ ~e.expired)
        => /\ e.out = "ReplayDetected"
           /\ e.newJti = 0
           /\ e.newSub = NoId
           /\ e.familyInvalid

\* a replay of a used credential has been answered
C2_Witness ==
    \E e \in Refreshes : /\ e.usedAtStart
                         /\ ~e.expired
                         /\ e.out = "ReplayDetected"
                         /\ e.familyInvalid

Has(k) == \E e \in log : e.req = k
E(k) == CHOOSE e \in log : e.req = k

\* the login or the rotation that minted the credential jti
MintedBy(jti) == CHOOSE e \in log : e.newJti = jti

\* the user a credential was issued to: the user who logged in at the head
\* of its chain
RECURSIVE IssuedTo(_)
IssuedTo(jti) ==
    LET m == MintedBy(jti)
    IN  IF m.op = "login" THEN get_user(m.who) ELSE IssuedTo(m.jti)

\* a sequential Refresh (no other request overlaps it) that presents the
\* credential jti while it is unexpired
SoloRefreshOf(e, jti) ==
    /\ e.op = "refresh"
    /\ e.solo
    /\ e.jti = jti
    /\ e.out # "InvalidToken"
    /\ ~e.expired

\* C4: for an active user with an assigned permission set, the sequential
\* run Login; Refresh(jti1); Refresh(jti1); Refresh(jti2) yields a pair with
\* family F1 and jti1; a rotation to a pair with F1 and a fresh jti2;
\* ReplayDetected; FamilyInvalidated.
C4_LoginRotateReplay ==
    (/\ Has(1) /\ Has(2)
     /\ E(1).op = "login" /\ E(1).out = "Pair"
     /\ get_user(E(1).who) \in active \cap permitted
     /\ SoloRefreshOf(E(2), E(1).newJti))
    => /\ E(1).newFam # 0 /\ E(1).newJti # 0
       /\ E(2).out = "Pair"
       /\ E(2).newFam = E(1).newFam
       /\ E(2).newJti \notin {0, E(1).newJti}
       /\ (Has(3) /\ SoloRefreshOf(E(3), E(1).newJti))
             => E(3).out = "ReplayDetected"
       /\ (Has(3) /\ SoloRefreshOf(E(3), E(1).newJti)
           /\ Has(4) /\ SoloRefreshOf(E(4), E(2).newJti))
             => E(4).out = "FamilyInvalidated"

\* C5: sequential Refresh calls that start from one Login rotate the
\* credential any number of times: each call that presents the newest
\* credential of the chain issues a refresh credential that carries the
\* tokenFamily of the login credential, and the jti values of the chain are
\* pairwise distinct.
C5_RotationKeepsFamily ==
    /\ \A e \in Refreshes :
          e.out = "Pair" => /\ e.newFam = TokenOf(e.jti).token_family
                            /\ e.newJti \notin {0, e.jti}
    /\ \A t1, t2 \in refreshTokens : t1.jti = t2.jti => t1 = t2
    /\ \A e \in Refreshes :
          (/\ SoloRefreshOf(e, e.jti)
           /\ ~e.usedAtStart
           /\ ~e.familyInvalid
           /\ IssuedTo(e.jti) \in active \cap permitted)
          => e.out = "Pair"

\* C6: when LogoutAll presented with a valid refresh credential of user U
\* returns success, every token family of U, the family of the presented
\* credential included, is invalidated, and no Refresh that presents a
\* credential issued to U before returns a new pair afterwards.
C6_LogoutAllInvalidates ==
    /\ \A e \in log :
          (e.op = "logout_all" /\ e.out = "Success")
          => (e.familyInvalid /\ e.userFamiliesInvalid)
    /\ \A e \in log, r \in Refreshes :
          (/\ e.op = "logout_all" /\ e.out = "Success"
           /\ r.req > e.req
           /\ r.jti # 0
           /\ TokenOf(r.jti).user_id = e.who)
          => r.out # "Pair"

(***************************************************************************)
(* Properties of the rate limiter.                                         *)
(***************************************************************************)
Buckets == 1..Len(heap)

\* the tasks that hold a reference to a bucket
Serving(c) == {t \in Threads : threads[t].client = c /\ threads[t].bucket # 0}

RECURSIVE Admitted(_, _, _)
\* the requests of client c admitted in the instants from..to
Admitted(c, from, to) ==
    IF from > to THEN 0 ELSE admits[c][from] + Admitted(c, from + 1, to)

\* C7: in every reachable state of every bucket, 0 <= tokens <= capacity.
C7_TokensInRange ==
    \A b \in Buckets : heap[b].tokens >= 0 /\ heap[b].tokens <= Capacity * Scale

\* a bucket emptied by requests, after refills at later instants and a sweep
C7_Witness ==
    \E b \in Buckets : /\ heap[b].tokens = 0
                       /\ heap[b].last_refill > 0
                       /\ last_cleanup > 0

\* C8: the concurrent requests of one client, first requests that race to
\* create the bucket included, are served by a single bucket, and its
\* consumption is linearized: of the requests of one instant, as many are
\* admitted as the bucket held whole tokens, and the others are rejected.
C8_SingleLinearizedBucket ==
    \A c \in Clients :
        /\ \A t \in Serving(c) : InRegistry(c) /\ threads[t].bucket = BucketOf(c)
        /\ instant[c].at >= 0
              => /\ admits[c][instant[c].at] <= instant[c].whole
                 /\ instant[c].rejected
                       => admits[c][instant[c].at] = instant[c].whole

\* two requests of one client in flight in one instant: the bucket held one
\* token or more, one request took the last token and the other is rejected
C8_Witness ==
    \E c \in Clients : \E t1, t2 \in Serving(c) :
        /\ threads[t1].allowed = "admit"
        /\ threads[t2].allowed = "reject"
        /\ instant[c].at = time
        /\ instant[c].whole >= 1
        /\ admits[c][time] = instant[c].whole

\* C9: for every client and every window of T seconds, the requests
\* admitted within the window number at most capacity + refillRate * T.
C9_WindowBound ==
    \A c \in Clients : \A from \in 0..RLMaxClock : \A to \in from..RLMaxClock :
        Scale * Admitted(c, from, to)
            <= Scale * Capacity + RefillPerTick * (to - from)

\* after a sweep, a window of two or more seconds filled to the bound
C9_Witness ==
    \E c \in Clients : \E from \in 0..RLMaxClock : \E to \in (from + 1)..RLMaxClock :
        /\ last_cleanup > 0
        /\ Admitted(c, from, to) > Capacity
        /\ Scale * (Admitted(c, from, to) + 1)
              > Scale * Capacity + RefillPerTick * (to - from)

\* C10: of the requests made to a newly created bucket in the instant of its
\* creation, the first `capacity` are admitted and the next one is rejected.
C10_BurstThenReject ==
    \A c \in Clients :
        instant[c].fresh
        => /\ instant[c].whole = Capacity
           /\ admits[c][instant[c].at] <= Capacity
           /\ instant[c].rejected => admits[c][instant[c].at] = Capacity

\* a new bucket has admitted `capacity` requests and rejected one more
C10_Witness ==
    \E c \in Clients : /\ instant[c].fresh
                       /\ instant[c].rejected
                       /\ instant[c].at = time
                       /\ admits[c][time] = Capacity

\* C11: a sweep removes from the registry every bucket that is full and has
\* received no request for longer than the cleanup interval.  A sweep
\* removes exactly the buckets it lists in to_remove, and SweepScan(t) is
\* the step that looks at one bucket: a bucket that is full once refilled,
\* and that nothing has touched for longer than the interval before the
\* `now` of the sweep, is put on that list.  No other request is in flight.
C11_SweepEvictsIdleFull ==
    [][\A t \in Threads :
          SweepScan(t) =>
             LET e == Head(threads[t].scan)
                 b == e.bucket
             IN  (/\ \A u \in Threads \ {t} : threads[u].pc = "idle"
                  /\ Refilled(heap[b]).tokens >= Capacity * Scale
                  /\ threads[t].now - heap[b].last_refill > CleanupInterval)
                 => e.client \in threads'[t].to_remove]_vars

\* C12: with capacity = 5 and refillRate = 1 token per second, the first
\* five immediate requests of a new client are admitted and report 4, 3, 2,
\* 1 and 0 remaining tokens; a sixth immediate request is rejected with
\* remaining 0 and retry_after = 2; one second later one more is admitted.
\* The requests are served one after the other; a request is immediate
\* when the clock still reads 0 at its response.
C12_BurstOfFive ==
    \A c \in Clients : \A t \in Threads :
        (threads[t].pc = "done" /\ threads[t].client = c)
        => /\ (time = 0 /\ threads[t].allowed = "admit")
                 => /\ admits[c][0] \in 1..5
                    /\ threads[t].remaining = 5 - admits[c][0]
           /\ (time = 0 /\ threads[t].allowed = "reject")
                 => /\ admits[c][0] = 5
                    /\ threads[t].remaining = 0
                    /\ threads[t].retry_after = 2
           /\ (/\ time = 1
               /\ instant[c].at = 1
               /\ admits[c][0] = 5
               /\ threads[t].allowed = "reject")
                 => admits[c][1] = 1

\* five requests were admitted at second 0, and the one made at second 1 is
\* admitted and takes the token gained since
C12_Witness ==
    \E c \in Clients : \E t \in Threads :
        /\ threads[t].pc = "done"
        /\ threads[t].client = c
        /\ threads[t].allowed = "admit"
        /\ time = 1
        /\ admits[c][0] = 5
        /\ admits[c][1] = 1
        /\ threads[t].remaining = 0

\* what get_available_tokens() would return for bucket b now
Available(b) == Refilled(heap[b]).tokens

\* C13: a bucket from which no request takes a token for capacity/refillRate
\* seconds is full at the end of that wait, whatever it held before (nothing
\* included), and as long as no request takes a token the count never
\* decreases as time advances.
C13_RefillsToFull ==
    /\ [](\A c \in Clients : \A s \in 0..time :
             (/\ InRegistry(c)
              /\ \A u \in (s + 1)..time : admits[c][u] = 0
              /\ (time - s) * config.refill_rate >= config.capacity * Scale)
             => Available(BucketOf(c)) = config.capacity * Scale)
    /\ [][admits' = admits
             => \A b \in Buckets :
                   /\ Available(b)' >= Available(b)
                   /\ heap'[b].tokens >= heap[b].tokens]_vars

\* a bucket emptied at second s is full again capacity/refillRate seconds
\* later, and was not yet full one second before
C13_Witness ==
    \E c \in Clients : \E s \in 0..time :
        /\ InRegistry(c)
        /\ admits[c][s] = config.capacity
        /\ \A u \in (s + 1)..time : admits[c][u] = 0
        /\ (time - s) * config.refill_rate >= config.capacity * Scale
        /\ (time - s - 1) * config.refill_rate < config.capacity * Scale
        /\ heap[BucketOf(c)].tokens = config.capacity * Scale

(***************************************************************************)
(* Further properties of the credential lifecycle.                         *)
(***************************************************************************)
\* the Logout calls that were presented a decodable credential
Logouts == {e \in log : e.op = "logout" /\ e.jti # 0 /\ ~e.expired}
\* the credentials consumed so far, by Refresh or by Logout
Consumed == {a.jti : a \in accepted} \cup {e.jti : e \in Logouts}

\* C14: from its consumption, by Refresh or by Logout, until its own expiry
\* a refresh credential has a Used-Credential Record: is_token_used(jti)
\* holds at every time up to the credential's exp.
C14_UsedRecordOutlivesCredential ==
    \A j \in Consumed : now <= TokenOf(j).exp => is_token_used(j)

\* a consumed credential in the last tick of its life, after the tick of its
\* minting, still marked used
C14_Witness ==
    \E j \in Consumed : /\ now = TokenOf(j).exp
                        /\ now > TokenOf(j).issued_at
                        /\ is_token_used(j)

\* C15: a Logout presented a decodable refresh credential writes the
\* Used-Credential Record of its jti and issues no credential, and no
\* Refresh that presents the credential after it returns a pair: while the
\* credential is unexpired such a Refresh ends at the replay check and
\* never reaches mark_token_as_used, and afterwards it ends at the decoding.
C15_LogoutConsumesWithoutRotation ==
    \A e \in Logouts :
        /\ e.out = "Success" /\ e.newJti = 0 /\ e.newSub = NoId
        /\ now <= TokenOf(e.jti).exp => is_token_used(e.jti)
        /\ \A a \in accepted :
              (a.jti = e.jti /\ ~a.tokenExpired) => a.req < e.req
        /\ \A r \in Refreshes :
              (r.jti = e.jti /\ r.req > e.req)
              => /\ r.out # "Pair" /\ r.newJti = 0 /\ r.newSub = NoId
                 /\ ~r.expired => r.out \in {"ReplayDetected", "InvalidToken"}

\* after a Logout, a Refresh of the same credential was refused as a replay
C15_Witness ==
    \E e \in Logouts : \E r \in Refreshes :
        r.jti = e.jti /\ r.req > e.req /\ r.out = "ReplayDetected"

\* the keys of the records the store holds
Keys(store) == {e.key : e \in store}
\* the Logout calls that were presented tok
LogoutsOf(tok) == {e \in log : e.op = "logout" /\ e.jti = JtiOf(tok)}

\* C16: Logout answers success whatever it is presented (a valid, a
\* consumed, an expired or an undecodable credential), and a Logout with a
\* credential that a Logout was presented before leaves the store holding
\* the Used-Credential and Family-Invalidation Records it held (a record
\* being its key: the rewrite restarts the time to live of the mark).
C16_LogoutIdempotent ==
    /\ [](\A e \in log : e.op = "logout" => e.out = "Success")
    /\ [][\A tok \in Presentable :
             (Logout(tok) /\ LogoutsOf(tok) # {})
             => /\ Keys(redis') = Keys(redis)
                /\ \E e \in log' \ log : e.op = "logout" /\ e.out = "Success"]_vars

\* a decodable credential was presented to Logout twice, the second time
\* already marked used, and is still marked
C16_Witness ==
    \E e1, e2 \in Logouts :
        /\ e1.jti = e2.jti
        /\ e1.req < e2.req
        /\ e2.usedAtStart
        /\ is_token_used(e1.jti)

(***************************************************************************)
(* Properties of the access credential.                                    *)
(***************************************************************************)
\* C17: an access credential that create_access_token made of a subject, a
\* scope set and a lifetime carries that subject and those scopes and an
\* expiry not before its minting, and decoding it gives back the subject and
\* the scopes at every time up to that expiry, the instant of the expiry
\* included, and fails with Expired at every time after it.
C17_AccessRoundTrip ==
    [][/\ \A sub \in Subjects, scopes \in SUBSET {"me"}, ttl \in 0..AccessTTL :
             MintAccess(sub, scopes, ttl)
             => \E tok \in accessTokens' :
                   /\ tok.sub = sub /\ tok.scopes = scopes
                   /\ tok.exp = now + (IF ttl = 0 THEN AccessTTL ELSE ttl)
       /\ \A tok \in accessTokens :
             Authorize(tok)
             => authz'.decoded =
                   IF now <= tok.exp
                   THEN [kind |-> "Data", sub |-> tok.sub, scopes |-> tok.scopes]
                   ELSE NoAccessData("Expired")]_vars

\* the one credential of its subject and scopes, decoded to them, at the
\* instant of its expiry
C17_Witness ==
    \E tok \in accessTokens :
        /\ now = tok.exp
        /\ authz.decoded = [kind |-> "Data", sub |-> tok.sub, scopes |-> tok.scopes]
        /\ now > 0
        /\ \A other \in accessTokens :
              (other.sub = tok.sub /\ other.scopes = tok.scopes) => other = tok

\* C18: what get_current_user answers for an access credential is a function
\* of the credential, the clock and the users: a step that leaves the clock
\* alone, whatever Used-Credential or Family-Invalidation Record it writes
\* or deletes (Logout, LogoutAll, the replay answer of Refresh), leaves the
\* answer to every issued credential what it was, and a credential that
\* Login issued is accepted up to its expiry whatever the TTL store holds.
C18_AccessIndependentOfStore ==
    [][/\ now' = now
          => \A tok \in accessTokens :
                get_current_user(tok, RequiredScopes)'
                   = get_current_user(tok, RequiredScopes)
       /\ \A tok \in accessTokens :
             (Authorize(tok) /\ now <= tok.exp)
             => /\ authz'.out.kind = "User"
                /\ authz'.out.sub = tok.sub]_vars

\* a credential was accepted while the store held records, and the store
\* holds the mark of a logged-out credential and an invalidated family
C18_Witness ==
    /\ authz.out.kind = "User"
    /\ authz.records
    /\ \E e \in Logouts : is_token_used(e.jti)
    /\ \E tok \in refreshTokens : ~is_token_family_valid(tok.token_family)

(***************************************************************************)
(* Failures of the TTL store.                                              *)
(***************************************************************************)
\* C19: a Refresh during which a call to the TTL store failed issues no
\* credential and is answered StoreUnavailable: not as a record that was
\* not found, not as an invalid token, not as an exception nobody converted.
C19_StoreFailureIsStoreUnavailable ==
    \A e \in Refreshes :
        e.req \in faults
        => /\ e.out = "StoreUnavailable"
           /\ e.newJti = 0 /\ e.newSub = NoId

\* C20: validating a token string, whatever it is, ends in the decoded
\* subject and scopes or in a typed failure answered as unauthorized; a
\* string that jwe.decrypt rejects, or whose plaintext is not JSON, never
\* ends in an exception nobody converted.
C20_ValidationOutcomeTyped ==
    /\ authz.out.kind \in {"none", "User", "Expired", "CouldNotValidate",
                            "NotEnoughPermissions"}
    /\ authz.decoded.kind \in {"none", "Data", "Expired", "CouldNotValidate"}

(***************************************************************************)
(* Further properties of the rate limiter.                                 *)
(***************************************************************************)
\* C21: a request for a path of the exclusion set is forwarded to the
\* handler whatever the client's bucket holds, and neither its arrival nor
\* its response changes the registry, any bucket's tokens or last_refill,
\* the registry lock or the time of the last sweep: no bucket is created,
\* refilled, consumed or evicted for it.
C21_ExcludedPathBypasses ==
    [][\A t \in Threads :
          /\ \A c \in Clients, path \in config.exclude_paths :
                DispatchPath(t, c, path)
                => /\ threads'[t].pc = "done"
                   /\ threads'[t].allowed = "forward"
          /\ ((threads[t].allowed = "forward" \/ threads'[t].allowed = "forward")
               /\ threads'[t] # threads[t])
             => UNCHANGED <<heap, registry, bucket_lock, last_cleanup, admits>>]_vars

\* a request for the excluded path is forwarded while the client's bucket
\* holds less than one token, and no other request is in flight
C21_Witness ==
    \E t \in Threads :
        /\ threads[t].pc = "done"
        /\ threads[t].allowed = "forward"
        /\ \A u \in Threads \ {t} : threads[u].pc = "idle"
        /\ InRegistry(threads[t].client)
        /\ Refilled(heap[BucketOf(threads[t].client)]).tokens < Scale

\* C23: the registry lock is held only to look up, create or remove
\* registry entries: no task refills or consumes a bucket, or takes a
\* bucket's lock, while it holds the registry lock.
C23_RegistryLockNotHeldOnBucketWork ==
    [][\A t \in Threads, b \in DOMAIN heap :
          (threads'[t] # threads[t] /\ heap'[b] # heap[b]) => bucket_lock # t]_vars

\* the bucket whose lock task t holds, if any
HeldBy(t) == {b \in DOMAIN heap : heap[b].lock = t}
\* the pcs at which a task asks for the registry lock
WantsRegistry == {"sweep", "get", "create"}

\* C28: a task that holds a bucket's lock never asks for the registry lock;
\* while a request is in dispatch some task can take a step (no deadlock);
\* and under fair scheduling every request in dispatch is decided:
\* admitted or rejected, whatever other requests and sweeps run beside it.
C28_AdmissionTerminates ==
    /\ [](\A t \in Threads : HeldBy(t) # {} => threads[t].pc \notin WantsRegistry)
    /\ []((\E t \in Threads : threads[t].pc # "idle")
            => \E t \in Threads : ENABLED (Serve(t) /\ UNCHANGED fixedRL))
    /\ \A t \in Threads :
          (threads[t].pc # "idle")
             ~> (threads[t].pc = "done"
                 /\ threads[t].allowed \in {"admit", "reject"})

\* a sweeping task holds the registry lock and waits for a bucket's lock that
\* a consuming request holds
C28_Witness ==
    \E t, u \in Threads :
        /\ t # u
        /\ bucket_lock = t
        /\ threads[t].pc = "scan"
        /\ threads[t].scan # <<>>
        /\ heap[Head(threads[t].scan).bucket].lock = u

(***************************************************************************)
(* Identifiers, accounts and credential kinds.                             *)
(***************************************************************************)
\* the Refresh calls that got past the replay and the family check and then
\* found no active user, or no permissions
FailedAfterMark ==
    {e \in Refreshes : e.out \in {"UserNotFound", "NoPermissions"}}

\* C25: a Refresh that passes the replay and the family check and then fails
\* for want of an active user or of permissions issues no credential and
\* leaves the jti presented marked used for as long as the credential
\* lives; a later Refresh that presents the credential, unexpired, is
\* answered as a replay and leaves the family invalidated.
C25_FailedRefreshConsumes ==
    \A e \in FailedAfterMark :
        /\ e.newJti = 0 /\ e.newSub = NoId
        /\ now <= TokenOf(e.jti).exp => is_token_used(e.jti)
        /\ \A r \in Refreshes :
              (r.jti = e.jti /\ r.req > e.req /\ ~r.expired)
              => r.out = "ReplayDetected" /\ r.familyInvalid

\* the credential of an inactive user was refused after the checks, and
\* presented again; the second Refresh was answered as a replay
C25_Witness ==
    \E e \in FailedAfterMark : \E r \in Refreshes :
        /\ get_user_by_id(e.who) # None
        /\ get_user_by_id(e.who) \notin active
        /\ r.jti = e.jti /\ r.req > e.req
        /\ r.out = "ReplayDetected" /\ r.familyInvalid

\* the user a pair was issued for: Login finds it by the e-mail address
\* submitted, Refresh by the user_id of the credential presented
PairIssuedFor(e) == IF e.op = "login" THEN get_user(e.who) ELSE get_user_by_id(e.who)

\* C24: the user_id of every refresh credential of an issued pair resolves,
\* through get_user_by_id as Refresh calls it, to the user the pair was
\* issued for, and the sub of its access credential resolves to the same
\* user through get_user as get_current_user calls it.
C24_IdentifiersResolve ==
    \A e \in log :
        e.out = "Pair"
        => /\ get_user_by_id(e.newUserId) = PairIssuedFor(e)
           /\ get_user(e.newSub) = PairIssuedFor(e)

\* the pcs of a Refresh call before the replay answer and the mark
BeforeMark == {"idle", "check_used", "check_family"}

\* C27: a Refresh that is refused because the credential does not decode
\* (malformed or expired), or because the family of its unconsumed jti is
\* invalidated, writes nothing to the TTL store and issues no credential:
\* the step that refuses it, and every step the call takes on its way there,
\* leaves the store and the credentials minted as they were.
C27_RejectedRefreshWritesNothing ==
    [][/\ \A e \in log' \ log :
             (e.op = "refresh" /\ e.out \in {"InvalidToken", "FamilyInvalidated"})
             => /\ redis' = redis
                /\ refreshTokens' = refreshTokens
                /\ accessTokens' = accessTokens
                /\ e.newJti = 0 /\ e.newSub = NoId
       /\ \A p \in Procs :
             (/\ calls'[p].pc # calls[p].pc
              /\ calls[p].pc \in BeforeMark
              /\ calls'[p].pc \in BeforeMark)
             => /\ redis' = redis
                /\ refreshTokens' = refreshTokens
                /\ accessTokens' = accessTokens]_vars

\* an unconsumed, unexpired credential was refused because its family is
\* invalidated, and the store holds no mark for it
C27_Witness ==
    \E e \in Refreshes :
        /\ e.out = "FamilyInvalidated"
        /\ ~e.usedAtStart
        /\ ~e.expired
        /\ ~is_token_used(e.jti)
        /\ now <= TokenOf(e.jti).exp

\* C26: no pair is issued for an account that is not active: a Login or a
\* Refresh that finds the user inactive fails and issues nothing.
C26_NoPairForInactive ==
    \A e \in log :
        e.out = "Pair" => PairIssuedFor(e) \in active

\* C29: access and refresh credentials are never interchangeable.  An access
\* credential presented to Refresh, Logout or LogoutAll fails refresh
\* decoding: no Refresh call gets past its first step with it, nothing is
\* rotated or minted and the store is not written.  A refresh credential
\* presented as a bearer token is rejected by access validation.
C29_KindsNotInterchangeable ==
    /\ [](\A p \in Procs :
             calls[p].pc # "idle" => calls[p].tok.type = "refresh")
    /\ [](\A e \in log :
             (e.presented = "access" /\ e.op \in {"refresh", "logout", "logout_all"})
             => /\ e.out = IF e.op = "logout" THEN "Success" ELSE "InvalidToken"
                /\ e.who = NoId
                /\ e.newJti = 0 /\ e.newSub = NoId)
    /\ [][\A e \in log' \ log :
             e.presented = "access"
             => /\ redis' = redis
                /\ refreshTokens' = refreshTokens
                /\ accessTokens' = accessTokens]_vars
    /\ [](authz.presented = "refresh"
          => /\ authz.decoded.kind = "CouldNotValidate"
             /\ authz.out.kind = "CouldNotValidate"
             /\ authz.out.user = None)

\* an unexpired access credential went to Refresh, to Logout and to LogoutAll,
\* and an unexpired refresh credential went to a protected endpoint
C29_Witness ==
    /\ \A op \in {"refresh", "logout", "logout_all"} :
          \E e \in log : e.op = op /\ e.presented = "access"
    /\ \E a \in accessTokens : now <= a.exp
    /\ authz.presented = "refresh"
    /\ \E r \in refreshTokens : now <= r.exp

(***************************************************************************)
(* Properties of the e-mail verification.                                  *)
(***************************************************************************)
\* C22: the endpoint marks a user verified only when the submitted code is
\* the unexpired code stored for the address and fewer than MAX_ATTEMPTS
\* failures are recorded, and whenever verify_code reports failure the
\* endpoint answers with an error and leaves the user unverified.
C22_VerifiedOnlyByStoredCode ==
    vlast.op = "verify"
    => /\ vlast.marked
          => /\ vlast.stored # NoCode
             /\ vlast.code = vlast.stored
             /\ vlast.attempts < MAX_ATTEMPTS
       /\ (vlast.ret # <<>> /\ ~vlast.ret[1])
          => /\ vlast.status >= 400
             /\ ~vlast.marked
             /\ vlast.email \notin verified

\* C30: the first verify_code call after a code was stored for an address,
\* made with that code before it expires, succeeds, however many failed
\* attempts are recorded for the address.
C30_NewCodeVerifies ==
    (/\ vlast.op = "verify"
     /\ vlast.fresh
     /\ vlast.stored # NoCode
     /\ vlast.code = vlast.stored)
    => vlast.ret[1]

====
